---- MODULE Spec2Model ----
(***************************************************************************)
(* Batch orchestration of the detection front end.                         *)
(*                                                                         *)
(*   FolderProcessor.processFolder  (parallel, fallback, sequential)       *)
(*   App.handleProcessingStart / Complete / handleProgressUpdate           *)
(*   App.handleDetect / handleBlur / processImage                          *)
(*   App.downloadWithRetry over ApiService.downloadImage                   *)
(*   FolderProcessor.downloadZip                                           *)
(*   S3Processor.testCredentials / listS3Folder / processSingleImage /     *)
(*     processFolder                                                       *)
(*   ApiService.processBatch                                               *)
(*                                                                         *)
(* An async function is cut at its awaits: one action is the synchronous   *)
(* code that runs from the moment an awaited call returns up to the next   *)
(* await (or to the end of the function).  The external detection server   *)
(* is a nondeterministic choice of the value each call returns.            *)
(* Sequences are 1-based: input index k of the source is k+1 here.         *)
(*                                                                         *)
(* processFolder is the version with the parallel branch; the older        *)
(* FolderProcessor.js holds the sequential loop alone, with the same       *)
(* control flow.  Display-only state (progress percentage, currentFile,    *)
(* toasts) is left out; ids and timestamps of result records are omitted.  *)
(* The outer catch of processFolder is unreachable: every throw happens    *)
(* inside an inner try, and the App callbacks do not throw.  The catch of  *)
(* downloadWithRetry is unreachable as well: downloadImage catches all.    *)
(***************************************************************************)
EXTENDS Integers, Sequences, FiniteSets

\* ------------------------------------------------------------------ bounds
MaxFiles == 2
MaxRetriesBound == 4
MaxImages == 3
MaxLoads == 2
MaxMessages == 2

DefaultMaxRetries == 3
StatusTimeout == 5000
Elapse == {1000, 2500}
Latencies == {0, 700}

Names == {"a.png", "b.png"}
Errors == {"e404", "e500"}

\* ---------------------------------------------------------------- state
VARIABLES
  currentMode,             \* App: 'single' | 'folder' | 's3'
  app,                     \* App: processedCount, totalCount, processingStatus, isProcessing
  \* FolderProcessor
  selectedFiles,           \* sequence of file names
  useParallelProcessing,
  isProcessing,            \* FolderProcessor.isProcessing
  results,                 \* FolderProcessor.results (published)
  pc,                      \* position inside processFolder
  branch,                  \* which loop of processFolder is running
  i,                       \* loop variable (1-based)
  processedResults,        \* local of processFolder
  parallelResult,          \* local of processFolder: what processBatchParallel returned
  \* history of the calls made to the outside
  settled,                 \* indices whose outcome the job has received
  reports,                 \* onProgressUpdate calls: <<current, total, Cardinality(settled)>>
  calls,                   \* requests issued: <<kind, index>>
  completions,             \* onProcessingComplete calls: completed
  ends,                    \* items a sequential loop has finished: <<index, outcome>>
  \* App, single-image mode: handleDetect / handleBlur
  files,                   \* App.files: sequence of file names
  processedImages,         \* App.processedImages
  hpc,                     \* position inside handleDetect / handleBlur
  hi,                      \* loop variable (1-based)
  hresults,                \* local results of the handler
  enableBlur,              \* options.enableBlur of the running handler
  hcalls,                  \* requests issued by processImage: <<kind, index>>
  hends,                   \* items the handler has finished: <<index, outcome>>
  \* App.downloadWithRetry
  dpc,                     \* position inside downloadWithRetry
  maxRetries,              \* its parameter
  attempt,                 \* its loop variable
  now,                     \* clock, ms since downloadWithRetry was called
  attempts,                \* downloadImage calls: [at, slept, done, result]
  slept,                   \* delay of the setTimeout awaited last, 0 if none
  returned,                \* the value downloadWithRetry returned
  \* FolderProcessor.downloadZip
  zpc,                     \* position inside downloadZip
  zi,                      \* loop variable (1-based)
  isCreatingZip,
  zip,                     \* the JSZip being filled: originals, blurred, manifest
  delivered,               \* the archives handed to the browser: none or one
  zipError,                \* what the catch of downloadZip reported, "none" before
  \* S3Processor
  credentials,             \* the credentials typed: "" | "valid" | "invalid"
  credentialsValid,
  tpc,                     \* position inside testCredentials
  tested,                  \* the credentials the running testCredentials sent
  lpc,                     \* position inside listS3Folder
  listed,                  \* the credentials the running listS3Folder sent
  totalFiles,
  s3pc,                    \* position inside processSingleImage / processFolder
  s3IsProcessing,          \* S3Processor.isProcessing
  processingResults,
  s3request,               \* the processing request sent last: kind, credentials,
                           \* credentialsValid when it was sent, answer
  \* ApiService.processBatch
  bfiles,                  \* its parameter files: sequence of file names
  boptions,                \* its parameter options: [enableBlur]
  bpc,                     \* position inside processBatch
  bi,                      \* loop variable (1-based)
  bresults,                \* local results
  bcalls,                  \* requests issued: <<kind, index>>
  bends,                   \* detectObjects results received: <<index, result>>
  bblurs,                  \* blurObjects results received: <<index, result>>
  breturned,               \* the values processBatch returned: none or one
  \* App.handleDownload
  isDownloading,
  hdpc,                    \* position inside handleDownload
  dlActive,                \* downloads started by handleDownload and not ended
  \* S3ImageViewer / FullScreenViewer with the viewerIndex of their parent
  viewerKind,              \* which of the two viewers the parent renders
  images,                  \* number of images given to the viewer
  isViewerOpen,
  viewerIndex,             \* currentIndex of the viewer
  loading,                 \* S3ImageViewer.loading
  error,                   \* S3ImageViewer.error is set
  presignedUrl,            \* <<k>>: the URL issued for images[k]; <<>>: null
  loads,                   \* image indices of the viewS3Image requests in flight
  lastNav,                 \* history: the last navigation handler and what it did
  \* App.showStatus
  status,                  \* App.status: show, id of the message, and when and
                           \* how it was shown and hidden
  timers,                  \* due times of the pending setTimeout callbacks
  clock,                   \* ms
  shown                    \* number of showStatus calls so far

folderVars == <<selectedFiles, useParallelProcessing, isProcessing, results, pc,
                branch, i, processedResults, parallelResult>>
histVars == <<settled, reports, calls, completions, ends>>
singleVars == <<files, processedImages, hpc, hi, hresults, enableBlur, hcalls, hends>>
downloadVars == <<dpc, maxRetries, attempt, now, attempts, slept, returned>>
zipVars == <<zpc, zi, isCreatingZip, zip, delivered, zipError>>
s3Vars == <<credentials, credentialsValid, tpc, tested, lpc, listed, totalFiles, s3pc,
           s3IsProcessing, processingResults, s3request>>
batchVars == <<bfiles, boptions, bpc, bi, bresults, bcalls, bends, bblurs, breturned>>
handlerVars == <<isDownloading, hdpc, dlActive>>
viewerVars == <<viewerKind, images, isViewerOpen, viewerIndex, loading, error,
               presignedUrl, loads, lastNav>>
statusVars == <<status, timers, clock, shown>>
moreVars == <<handlerVars, viewerVars, statusVars>>
otherVars == <<zipVars, s3Vars, batchVars, moreVars>>

\* ------------------------------------------------------------ helpers
Range(s) == {s[k] : k \in DOMAIN s}

SeqsUpTo(S, n) == UNION {[1..m -> S] : m \in 0..n}

Perms(n) == {p \in [1..n -> 1..n] : \A a, b \in 1..n : p[a] = p[b] => a = b}

\* Array.prototype.find on selectedFiles by name: first matching index, 0 = undefined
FindFile(fs, name) ==
  IF \E k \in DOMAIN fs : fs[k] = name
  THEN CHOOSE k \in DOMAIN fs : fs[k] = name /\ \A j \in 1..(k-1) : fs[j] # name
  ELSE 0

\* ------------------------------------------------------- App callbacks
handleProcessingStart(a, total) ==
  [a EXCEPT !.totalCount = total, !.processedCount = 0,
            !.processingStatus = "processing", !.isProcessing = TRUE]

handleProcessingComplete(a, completed) ==
  [a EXCEPT !.processedCount = completed, !.processingStatus = "success",
            !.isProcessing = FALSE]

handleProgressUpdate(a, current, total) ==
  [a EXCEPT !.processedCount = current, !.totalCount = total]

\* ------------------------------------------ what the server may answer
\* one item's pipeline on the server / in the sequential loop
Outcomes == {"ok", "detect_failed", "blur_failed"}

\* one entry of response.data.results of POST /process-parallel
ServerResult(name, o) ==
  [filename |-> name,
   detection |-> IF o = "detect_failed" THEN "undefined" ELSE "data",
   blur |-> IF o = "ok" THEN "data" ELSE "undefined"]

NoParallelResult == [kind |-> "none", results |-> <<>>, statsComplete |-> FALSE]

\* every value apiService.processBatchParallel(selectedFiles, ...) can return:
\*   {success: false, error}                         kind = "error"
\*   {success: true, data} without data.results      kind = "noresults"
\*   {success: true, data: {results, ...stats}}      kind = "results"
\* the server answers one entry per uploaded file, in any order; statsComplete
\* says whether data carries the numeric parallel_efficiency the toast formats
processBatchParallel(fs) ==
  LET n == Len(fs) IN
    {[kind |-> "error", results |-> <<>>, statsComplete |-> FALSE],
     [kind |-> "noresults", results |-> <<>>, statsComplete |-> FALSE]}
    \cup
    {[kind |-> "results",
      results |-> [k \in 1..n |-> ServerResult(fs[p[k]], o[p[k]])],
      statsComplete |-> s] : p \in Perms(n), o \in [1..n -> Outcomes], s \in BOOLEAN}

\* --------------------------------------------- FolderProcessor.processFolder
\* the record the parallel branch builds from one server result
ConvertResult(fs, result) ==
  LET file == FindFile(fs, result.filename) IN
    [filename |-> result.filename, file |-> file, preview |-> file,
     detection |-> result.detection, blurred |-> result.blur]

\* the record a sequential loop pushes for file k
SequentialResult(fs, k) ==
  [filename |-> fs[k], file |-> k, preview |-> k,
   detection |-> "data", blurred |-> "data"]

\* what the sequential loop publishes for files fs when the detect/blur
\* capability has outcome o[k] for file k: a record for each file whose two
\* calls succeeded, in index order
SequentialPublishes(fs, o) ==
  LET ok == SelectSeq([k \in 1..Len(fs) |-> k], LAMBDA k : o[k] = "ok")
  IN [m \in 1..Len(ok) |-> SequentialResult(fs, ok[m])]

\* variant: the finally block does not reset isProcessing
PublishWithoutFinally(pr, a, rep, st) ==
  /\ results' = pr
  /\ app' = handleProcessingComplete(a, Len(pr))
  /\ completions' = Append(completions, Len(pr))
  /\ isProcessing' = isProcessing
  /\ processedResults' = pr
  /\ reports' = rep
  /\ settled' = st
  /\ pc' = "done"
  /\ UNCHANGED calls

\* setResults; onProcessingComplete; finally { setIsProcessing(false) }
Publish(pr, a, rep, st) ==
  /\ results' = pr
  /\ app' = handleProcessingComplete(a, Len(pr))
  /\ completions' = Append(completions, Len(pr))
  /\ isProcessing' = FALSE
  /\ processedResults' = pr
  /\ reports' = rep
  /\ settled' = st
  /\ pc' = "done"
  /\ UNCHANGED calls

\* variant: the loop sends the request of the following item together with
\* the request of item j
SeqLoopPrefetch(j, pr, a, rep, st) ==
  IF j <= Len(selectedFiles)
  THEN /\ i' = j
       /\ processedResults' = pr
       /\ app' = handleProgressUpdate(a, j, Len(selectedFiles))
       /\ reports' = Append(rep, <<j, Len(selectedFiles), Cardinality(st)>>)
       /\ settled' = st
       /\ calls' = IF j < Len(selectedFiles)
                   THEN Append(Append(calls, <<"detect", j>>), <<"detect", j + 1>>)
                   ELSE Append(calls, <<"detect", j>>)
       /\ pc' = "detect"
       /\ UNCHANGED <<results, isProcessing, completions>>
  ELSE /\ i' = j
       /\ Publish(pr, a, rep, st)

\* the head of a sequential loop reached with loop variable j: either the
\* next iteration up to its await of detectObjects, or the code after the loop
SeqLoop(j, pr, a, rep, st) ==
  IF j <= Len(selectedFiles)
  THEN /\ i' = j
       /\ processedResults' = pr
       /\ app' = handleProgressUpdate(a, j, Len(selectedFiles))
       /\ reports' = Append(rep, <<j, Len(selectedFiles), Cardinality(st)>>)
       /\ settled' = st
       /\ calls' = Append(calls, <<"detect", j>>)
       /\ pc' = "detect"
       /\ UNCHANGED <<results, isProcessing, completions>>
  ELSE /\ i' = j
       /\ Publish(pr, a, rep, st)

\* processFolder with nothing selected: a warning toast, no state change
ProcessFolderEmpty ==
  /\ currentMode = "folder"
  /\ pc \in {"idle", "done"}
  /\ selectedFiles = <<>>
  /\ UNCHANGED <<currentMode, app, folderVars, histVars, singleVars, downloadVars, otherVars>>

\* processFolder up to its first await
ProcessFolderStart ==
  /\ currentMode = "folder"
  /\ pc \in {"idle", "done"}
  /\ selectedFiles # <<>>
  /\ isProcessing' = TRUE
  /\ results' = <<>>
  /\ completions' = <<>>
  /\ ends' = <<>>
  /\ parallelResult' = NoParallelResult
  /\ IF useParallelProcessing
     THEN /\ pc' = "parallel"
          /\ branch' = "parallel"
          /\ i' = 0
          /\ processedResults' = <<>>
          /\ app' = handleProcessingStart(app, Len(selectedFiles))
          /\ reports' = <<>>
          /\ settled' = {}
          /\ calls' = <<<<"parallel", 0>>>>
     ELSE /\ branch' = "sequential"
          /\ i' = 1
          /\ processedResults' = <<>>
          /\ app' = handleProgressUpdate(handleProcessingStart(app, Len(selectedFiles)),
                                         1, Len(selectedFiles))
          /\ reports' = <<<<1, Len(selectedFiles), 0>>>>
          /\ settled' = {}
          /\ calls' = <<<<"detect", 1>>>>
          /\ pc' = "detect"
  /\ UNCHANGED <<currentMode, selectedFiles, useParallelProcessing, singleVars, downloadVars, otherVars>>

\* variant: a failed submission is not caught by the inner try and ends the job
ParallelReturnNoFallback ==
  /\ pc = "parallel"
  /\ \E r \in processBatchParallel(selectedFiles) :
       /\ parallelResult' = r
       /\ isProcessing' = FALSE
       /\ pc' = "done"
       /\ UNCHANGED <<app, results, i, branch, processedResults, settled, reports,
                      completions, calls>>
  /\ UNCHANGED <<currentMode, selectedFiles, useParallelProcessing, ends, singleVars, downloadVars, otherVars>>

\* processBatchParallel returns: conversion, progress, stats toast, or the
\* catch (parallelError) block with the first iteration of the fallback loop
ParallelReturn ==
  /\ pc = "parallel"
  /\ \E r \in processBatchParallel(selectedFiles) :
       /\ parallelResult' = r
       /\ IF r.kind = "results"
          THEN LET n == Len(selectedFiles)
                   pr == [k \in 1..Len(r.results) |-> ConvertResult(selectedFiles, r.results[k])]
                   st == {pr[k].file : k \in 1..Len(pr)} \ {0}
                   a == handleProgressUpdate(app, n, n)
                   rep == Append(reports, <<n, n, Cardinality(st)>>)
               IN IF r.statsComplete
                  THEN /\ Publish(pr, a, rep, st)
                       /\ UNCHANGED <<i, branch>>
                  ELSE /\ branch' = "fallback"
                       /\ SeqLoop(1, pr, a, rep, st)
          ELSE /\ branch' = "fallback"
               /\ SeqLoop(1, processedResults, app, reports, settled)
  /\ UNCHANGED <<currentMode, selectedFiles, useParallelProcessing, ends, singleVars, downloadVars, otherVars>>

\* variant: a failed detectObjects escapes the loop to the outer catch / finally
DetectReturnAborts ==
  /\ pc = "detect"
  /\ \E ok \in BOOLEAN :
       IF ok
       THEN /\ pc' = "blur"
            /\ calls' = Append(calls, <<"blur", i>>)
            /\ UNCHANGED <<app, isProcessing, results, i, processedResults,
                           settled, reports, completions, ends>>
       ELSE /\ ends' = Append(ends, <<i, "detect_failed">>)
            /\ isProcessing' = FALSE
            /\ pc' = "done"
            /\ settled' = settled \cup {i}
            /\ UNCHANGED <<app, results, i, processedResults, reports, completions, calls>>
  /\ UNCHANGED <<currentMode, selectedFiles, useParallelProcessing, branch, parallelResult,
                 singleVars, downloadVars, otherVars>>

\* variant: a failed detectObjects call is sent once more before the item is
\* given up
DetectReturnRetries ==
  /\ pc = "detect"
  /\ \E ok \in BOOLEAN :
       IF ok
       THEN /\ pc' = "blur"
            /\ calls' = Append(calls, <<"blur", i>>)
            /\ UNCHANGED <<app, isProcessing, results, i, processedResults,
                           settled, reports, completions, ends>>
       ELSE IF Cardinality({k \in DOMAIN calls : calls[k] = <<"detect", i>>}) < 2
            THEN /\ calls' = Append(calls, <<"detect", i>>)
                 /\ UNCHANGED <<app, isProcessing, results, i, processedResults, pc,
                                settled, reports, completions, ends>>
            ELSE /\ ends' = Append(ends, <<i, "detect_failed">>)
                 /\ SeqLoop(i + 1, processedResults, app, reports, settled \cup {i})
  /\ UNCHANGED <<currentMode, selectedFiles, useParallelProcessing, branch, parallelResult,
                 singleVars, downloadVars, otherVars>>

\* detectObjects returns for file i
DetectReturn ==
  /\ pc = "detect"
  /\ \E ok \in BOOLEAN :
       IF ok
       THEN /\ pc' = "blur"
            /\ calls' = Append(calls, <<"blur", i>>)
            /\ UNCHANGED <<app, isProcessing, results, i, processedResults,
                           settled, reports, completions, ends>>
       ELSE /\ ends' = Append(ends, <<i, "detect_failed">>)
            /\ SeqLoop(i + 1, processedResults, app, reports, settled \cup {i})
  /\ UNCHANGED <<currentMode, selectedFiles, useParallelProcessing, branch, parallelResult,
                 singleVars, downloadVars, otherVars>>

\* blurObjects returns for file i
BlurReturn ==
  /\ pc = "blur"
  /\ \E ok \in BOOLEAN :
       IF ok
       THEN /\ ends' = Append(ends, <<i, "ok">>)
            /\ SeqLoop(i + 1, Append(processedResults, SequentialResult(selectedFiles, i)),
                       app, reports, settled \cup {i})
       ELSE /\ ends' = Append(ends, <<i, "blur_failed">>)
            /\ SeqLoop(i + 1, processedResults, app, reports, settled \cup {i})
  /\ UNCHANGED <<currentMode, selectedFiles, useParallelProcessing, branch, parallelResult,
                 singleVars, downloadVars, otherVars>>

\* ------------------------------------------ App.handleDetect / handleBlur
\* processedImage built by processImage for file k
ProcessedImage(fs, k, blurred) ==
  [filename |-> fs[k], file |-> k, preview |-> k,
   detection |-> "data", blurred |-> blurred]

\* the head of the for loop of handleDetect / handleBlur with loop variable j:
\* the next call of processImage up to its await of detectObjects, or the
\* code after the loop and the finally block
HandlerLoop(j, rs) ==
  IF j <= Len(files)
  THEN /\ hi' = j
       /\ hresults' = rs
       /\ hcalls' = Append(hcalls, <<"detect", j>>)
       /\ hpc' = "detect"
       /\ UNCHANGED <<processedImages, app>>
  ELSE /\ hi' = j
       /\ hresults' = rs
       /\ processedImages' = processedImages \o rs
       /\ app' = [app EXCEPT !.isProcessing = FALSE]
       /\ hpc' = "done"
       /\ UNCHANGED hcalls

\* handleDetect / handleBlur with no file: a warning toast, no state change
HandleNoFiles ==
  /\ currentMode = "single"
  /\ hpc \in {"idle", "done"}
  /\ files = <<>>
  /\ UNCHANGED <<currentMode, app, folderVars, histVars, singleVars, downloadVars, otherVars>>

\* handleDetect (blur = FALSE) or handleBlur (blur = TRUE) up to the first await
HandleStart ==
  /\ currentMode = "single"
  /\ hpc \in {"idle", "done"}
  /\ files # <<>>
  /\ Len(processedImages) < MaxImages
  /\ \E blur \in BOOLEAN : enableBlur' = blur
  /\ app' = [app EXCEPT !.isProcessing = TRUE]
  /\ hi' = 1
  /\ hresults' = <<>>
  /\ hcalls' = <<<<"detect", 1>>>>
  /\ hends' = <<>>
  /\ hpc' = "detect"
  /\ UNCHANGED <<currentMode, folderVars, histVars, files, processedImages, downloadVars, otherVars>>

\* processImage: detectObjects returns for files[hi]
ImageDetectReturn ==
  /\ hpc = "detect"
  /\ \E ok \in BOOLEAN :
       IF ~ok
       THEN /\ hends' = Append(hends, <<hi, "detect_failed">>)
            /\ HandlerLoop(hi + 1, hresults)
       ELSE IF enableBlur
            THEN /\ hpc' = "blur"
                 /\ hcalls' = Append(hcalls, <<"blur", hi>>)
                 /\ UNCHANGED <<hi, hresults, processedImages, app, hends>>
            ELSE /\ hends' = Append(hends, <<hi, "ok">>)
                 /\ HandlerLoop(hi + 1, Append(hresults, ProcessedImage(files, hi, "null")))
  /\ UNCHANGED <<currentMode, folderVars, histVars, files, enableBlur, downloadVars, otherVars>>

\* processImage: blurObjects returns for files[hi]; on success handleBlur
\* awaits 2000 ms before it pushes the image
ImageBlurReturn ==
  /\ hpc = "blur"
  /\ \E ok \in BOOLEAN :
       IF ok
       THEN /\ hpc' = "wait"
            /\ UNCHANGED <<hi, hresults, hcalls, processedImages, app, hends>>
       ELSE /\ hends' = Append(hends, <<hi, "blur_failed">>)
            /\ HandlerLoop(hi + 1, hresults)
  /\ UNCHANGED <<currentMode, folderVars, histVars, files, enableBlur, downloadVars, otherVars>>

\* handleBlur: the 2000 ms wait is over
BlurWaitDone ==
  /\ hpc = "wait"
  /\ hends' = Append(hends, <<hi, "ok">>)
  /\ HandlerLoop(hi + 1, Append(hresults, ProcessedImage(files, hi, "data")))
  /\ UNCHANGED <<currentMode, folderVars, histVars, files, enableBlur, downloadVars, otherVars>>

\* ------------------------------------------------ App.downloadWithRetry
\* every value apiService.downloadImage(filename) can return; it catches every
\* error of the request itself and never throws
downloadImage ==
  {[success |-> TRUE, data |-> "blob", error |-> "none"]}
  \cup {[success |-> FALSE, data |-> "none", error |-> e] : e \in Errors}

RECURSIVE Pow2(_)
Pow2(n) == IF n = 0 THEN 1 ELSE 2 * Pow2(n - 1)

\* variants: a linear backoff; the exponent taken from the coming attempt
BackoffDelayLinear(k) == k * 1000
BackoffDelayOfNext(k) == Pow2(k + 1) * 1000

\* Math.pow(2, attempt) * 1000
BackoffDelay(k) == Pow2(k) * 1000

\* variants: a success is not returned at once; an error made up on exhaustion
ReturnsWhenExhausted(result, k, retries) == k = retries
ReturnValueSynthetic(result) ==
  IF result.success THEN result
  ELSE [success |-> FALSE, data |-> "none", error |-> "download failed"]

\* whether the loop body returns after this attempt instead of backing off
Returns(result, k, retries) == result.success \/ k = retries

\* what the loop body returns then: the result of that attempt
ReturnValue(result) == result

\* downloadWithRetry(filename, retries) up to the first await of downloadImage
DownloadStart ==
  /\ dpc = "idle"
  /\ \E r \in 1..MaxRetriesBound : maxRetries' = r
  /\ attempt' = 1
  /\ now' = 0
  /\ attempts' = <<>>
  /\ slept' = 0
  /\ returned' = [success |-> FALSE, data |-> "none", error |-> "none"]
  /\ dpc' = "download"
  /\ UNCHANGED <<currentMode, app, folderVars, histVars, singleVars, otherVars>>

\* downloadImage returns after some latency: return the result, or start the backoff
DownloadReturn ==
  /\ dpc = "download"
  /\ \E result \in downloadImage, latency \in Latencies :
       /\ attempts' = Append(attempts, [at |-> now, slept |-> slept,
                                        done |-> now + latency, result |-> result])
       /\ now' = now + latency
       /\ IF Returns(result, attempt, maxRetries)
          THEN /\ returned' = ReturnValue(result)
               /\ dpc' = "returned"
          ELSE /\ dpc' = "sleep"
               /\ UNCHANGED returned
  /\ UNCHANGED <<maxRetries, attempt, slept>>
  /\ UNCHANGED <<currentMode, app, folderVars, histVars, singleVars, otherVars>>

\* the backoff timer fires: next iteration up to its await of downloadImage
BackoffDone ==
  /\ dpc = "sleep"
  /\ slept' = BackoffDelay(attempt)
  /\ now' = now + BackoffDelay(attempt)
  /\ attempt' = attempt + 1
  /\ dpc' = "download"
  /\ UNCHANGED <<maxRetries, attempts, returned>>
  /\ UNCHANGED <<currentMode, app, folderVars, histVars, singleVars, otherVars>>

\* the caller takes the returned value; the function can be called again
DownloadAgain ==
  /\ dpc = "returned"
  /\ dpc' = "idle"
  /\ UNCHANGED <<maxRetries, attempt, now, attempts, slept, returned>>
  /\ UNCHANGED <<currentMode, app, folderVars, histVars, singleVars, otherVars>>

\* ------------------------------------------------------- specifications
vars == <<currentMode, app, folderVars, histVars, singleVars, downloadVars, otherVars>>

AppIdle ==
  app = [processedCount |-> 0, totalCount |-> 0,
         processingStatus |-> "idle", isProcessing |-> FALSE]

FolderIdle ==
  /\ isProcessing = FALSE
  /\ results = <<>>
  /\ pc = "idle"
  /\ branch = "none"
  /\ i = 0
  /\ processedResults = <<>>
  /\ parallelResult = NoParallelResult
  /\ settled = {}
  /\ reports = <<>>
  /\ calls = <<>>
  /\ completions = <<>>
  /\ ends = <<>>

SingleIdle ==
  /\ processedImages = <<>>
  /\ hpc = "idle"
  /\ hi = 0
  /\ hresults = <<>>
  /\ enableBlur = FALSE
  /\ hcalls = <<>>
  /\ hends = <<>>

DownloadIdle ==
  /\ dpc = "idle"
  /\ maxRetries = DefaultMaxRetries
  /\ attempt = 0
  /\ now = 0
  /\ attempts = <<>>
  /\ slept = 0
  /\ returned = [success |-> FALSE, data |-> "none", error |-> "none"]

EmptyZip == [originals |-> {}, blurred |-> {}, manifest |-> <<>>]

ZipIdle ==
  /\ zpc = "idle"
  /\ zi = 0
  /\ isCreatingZip = FALSE
  /\ zip = EmptyZip
  /\ delivered = <<>>
  /\ zipError = "none"

NoRequest == [kind |-> "none", credentials |-> "", credentialsValid |-> FALSE,
              answer |-> "none"]

S3Idle ==
  /\ credentials = ""
  /\ credentialsValid = FALSE
  /\ tpc = "idle"
  /\ tested = ""
  /\ lpc = "idle"
  /\ listed = ""
  /\ totalFiles = 0
  /\ s3pc = "idle"
  /\ s3IsProcessing = FALSE
  /\ processingResults = <<>>
  /\ s3request = NoRequest

BatchIdle ==
  /\ bfiles = <<>>
  /\ boptions = [enableBlur |-> FALSE]
  /\ bpc = "idle"
  /\ bi = 0
  /\ bresults = <<>>
  /\ bcalls = <<>>
  /\ bends = <<>>
  /\ bblurs = <<>>
  /\ breturned = <<>>

HandlerIdle ==
  /\ isDownloading = FALSE
  /\ hdpc = "idle"
  /\ dlActive = 0

ViewerIdle ==
  /\ viewerKind = "S3ImageViewer"
  /\ images = 0
  /\ isViewerOpen = FALSE
  /\ viewerIndex = 0
  /\ loading = FALSE
  /\ error = FALSE
  /\ presignedUrl = <<>>
  /\ loads = <<>>
  /\ lastNav = "none"

NoStatus == [show |-> FALSE, id |-> 0, shownAt |-> 0, hiddenBy |-> "none", hiddenAt |-> 0]

StatusIdle ==
  /\ status = NoStatus
  /\ timers = {}
  /\ clock = 0
  /\ shown = 0

MoreIdle == HandlerIdle /\ ViewerIdle /\ StatusIdle

OtherIdle == ZipIdle /\ S3Idle /\ BatchIdle /\ MoreIdle

\* the user has opened one mode and selected files there
Init ==
  /\ currentMode \in {"single", "folder"}
  /\ AppIdle /\ FolderIdle /\ SingleIdle /\ DownloadIdle /\ OtherIdle
  /\ useParallelProcessing \in BOOLEAN
  /\ IF currentMode = "folder"
     THEN selectedFiles \in SeqsUpTo(Names, MaxFiles) /\ files = <<>>
     ELSE files \in SeqsUpTo(Names, MaxFiles) /\ selectedFiles = <<>>
                /\ useParallelProcessing = FALSE

Next ==
  \/ ProcessFolderEmpty
  \/ ProcessFolderStart
  \/ ParallelReturn
  \/ DetectReturn
  \/ BlurReturn
  \/ HandleNoFiles
  \/ HandleStart
  \/ ImageDetectReturn
  \/ ImageBlurReturn
  \/ BlurWaitDone

Spec == Init /\ [][Next]_vars

\* every detectObjects and blurObjects call of a sequential loop returns, and
\* the event loop then runs the continuation that awaits it
LiveSpec == Spec /\ WF_vars(DetectReturn) /\ WF_vars(BlurReturn)

\* downloadWithRetry alone, in single-image mode
DownloadInit ==
  /\ currentMode = "single"
  /\ AppIdle /\ FolderIdle /\ SingleIdle /\ DownloadIdle /\ OtherIdle
  /\ useParallelProcessing = FALSE
  /\ selectedFiles = <<>>
  /\ files = <<>>

DownloadNext ==
  \/ DownloadStart
  \/ DownloadReturn
  \/ BackoffDone
  \/ DownloadAgain

DownloadSpec == DownloadInit /\ [][DownloadNext]_vars

\* ------------------------------------------- FolderProcessor.downloadZip
\* the record the loop of the older FolderProcessor.js pushes for file k
OldResult(fs, k) ==
  [originalFile |-> k, detection |-> "data", blur |-> "data"]

\* what the loop of the older FolderProcessor.js publishes for files fs when
\* the detect/blur capability has outcome o[k] for file k
OldPublishes(fs, o) ==
  LET ok == SelectSeq([k \in 1..Len(fs) |-> k], LAMBDA k : o[k] = "ok")
  IN [m \in 1..Len(ok) |-> OldResult(fs, ok[m])]

\* the result lists setResults can hold after processFolder for files fs: of
\* the older component, of the sequential loop and of the parallel branch
PublishedResults(fs) ==
  LET n == Len(fs) IN
    {OldPublishes(fs, o) : o \in [1..n -> Outcomes]}
    \cup {SequentialPublishes(fs, o) : o \in [1..n -> Outcomes]}
    \cup {[k \in 1..n |-> ConvertResult(fs, r.results[k])] :
            r \in {x \in processBatchParallel(fs) : x.kind = "results"}}

\* result.originalFile is an object (the File), not undefined
HasOriginalFile(r) == "originalFile" \in DOMAIN r

\* result.blur?.blurred_image_path is truthy
HasBlurPath(r) == "blur" \in DOMAIN r /\ r.blur = "data"

\* detectionData, the content of detection_results.json
Manifest ==
  [k \in 1..Len(results) |->
     [filename |-> selectedFiles[results[k].originalFile],
      detection |-> results[k].detection,
      blur |-> results[k].blur]]

\* catch { toast.error('Failed to create ZIP file') } finally { setIsCreatingZip(false) }
ZipFail(z, e) ==
  /\ zip' = z
  /\ zipError' = e
  /\ isCreatingZip' = FALSE
  /\ zpc' = "failed"
  /\ UNCHANGED <<zi, delivered>>

\* the head of the second loop reached with loop variable j: the fetch of the
\* next result that has a blurred image path, or the code after the loop up
\* to the await of zip.generateAsync
BlurredLoop(j, z) ==
  LET next == {m \in j..Len(results) : HasBlurPath(results[m])} IN
    IF next # {}
    THEN /\ zi' = CHOOSE m \in next : \A x \in next : m <= x
         /\ zpc' = "fetch"
         /\ zip' = z
         /\ UNCHANGED <<isCreatingZip, delivered, zipError>>
    ELSE /\ zi' = Len(results) + 1
         /\ zpc' = "generate"
         /\ zip' = [z EXCEPT !.manifest = Manifest]
         /\ UNCHANGED <<isCreatingZip, delivered, zipError>>

\* the head of the first loop reached with loop variable j: reading
\* result.originalFile.arrayBuffer throws a TypeError when the record has no
\* originalFile
OriginalsLoop(j, z) ==
  IF j <= Len(results)
  THEN IF HasOriginalFile(results[j])
       THEN /\ zi' = j
            /\ zpc' = "original"
            /\ zip' = z
            /\ UNCHANGED <<isCreatingZip, delivered, zipError>>
       ELSE ZipFail(z, "TypeError")
  ELSE BlurredLoop(1, z)

\* downloadZip with no results: a warning toast, no state change
DownloadZipEmpty ==
  /\ currentMode = "folder"
  /\ zpc \in {"idle", "done", "failed"}
  /\ results = <<>>
  /\ UNCHANGED vars

\* downloadZip up to its first await, or up to its end when the first
\* iteration throws
DownloadZipStart ==
  /\ currentMode = "folder"
  /\ zpc \in {"idle", "done", "failed"}
  /\ results # <<>>
  /\ IF HasOriginalFile(results[1])
     THEN /\ zi' = 1
          /\ zpc' = "original"
          /\ zip' = EmptyZip
          /\ isCreatingZip' = TRUE
          /\ delivered' = <<>>
          /\ zipError' = "none"
     ELSE /\ zi' = 1
          /\ zpc' = "failed"
          /\ zip' = EmptyZip
          /\ isCreatingZip' = FALSE
          /\ delivered' = <<>>
          /\ zipError' = "TypeError"
  /\ UNCHANGED <<currentMode, app, folderVars, histVars, singleVars, downloadVars,
                 s3Vars, batchVars, moreVars>>

\* result.originalFile.arrayBuffer() settles for results[zi]; a rejection is
\* not caught inside the loop
OriginalReturn ==
  /\ zpc = "original"
  /\ \E ok \in BOOLEAN :
       IF ok
       THEN OriginalsLoop(zi + 1,
              [zip EXCEPT !.originals = @ \cup {selectedFiles[results[zi].originalFile]}])
       ELSE ZipFail(zip, "NotReadable")
  /\ UNCHANGED <<currentMode, app, folderVars, histVars, singleVars, downloadVars,
                 s3Vars, batchVars, moreVars>>

\* fetch of the blurred image of results[zi] settles: the image is added when
\* the response is ok; another status or a thrown error leaves it out
FetchReturn ==
  /\ zpc = "fetch"
  /\ \E o \in {"ok", "status", "throws"} :
       BlurredLoop(zi + 1,
         IF o = "ok" THEN [zip EXCEPT !.blurred = @ \cup {zi}] ELSE zip)
  /\ UNCHANGED <<currentMode, app, folderVars, histVars, singleVars, downloadVars,
                 s3Vars, batchVars, moreVars>>

\* zip.generateAsync settles: the archive is handed to the browser, or the
\* outer catch reports the failure
GenerateReturn ==
  /\ zpc = "generate"
  /\ \E ok \in BOOLEAN :
       IF ok
       THEN /\ delivered' = <<zip>>
            /\ isCreatingZip' = FALSE
            /\ zpc' = "done"
            /\ UNCHANGED <<zi, zip, zipError>>
       ELSE ZipFail(zip, "generate")
  /\ UNCHANGED <<currentMode, app, folderVars, histVars, singleVars, downloadVars,
                 s3Vars, batchVars, moreVars>>

\* downloadZip alone, after processFolder has published its results
ZipInit ==
  /\ currentMode = "folder"
  /\ AppIdle /\ SingleIdle /\ DownloadIdle /\ OtherIdle
  /\ files = <<>>
  /\ useParallelProcessing \in BOOLEAN
  /\ selectedFiles \in SeqsUpTo(Names, MaxFiles)
  /\ results \in PublishedResults(selectedFiles)
  /\ isProcessing = FALSE
  /\ pc = "done"
  /\ branch = "none"
  /\ i = 0
  /\ processedResults = results
  /\ parallelResult = NoParallelResult
  /\ settled = {}
  /\ reports = <<>>
  /\ calls = <<>>
  /\ completions = <<>>
  /\ ends = <<>>

ZipNext ==
  \/ DownloadZipEmpty
  \/ DownloadZipStart
  \/ OriginalReturn
  \/ FetchReturn
  \/ GenerateReturn

ZipSpec == ZipInit /\ [][ZipNext]_vars

\* ------------------------------------------------------------ S3Processor
\* the credentials the three input boxes can hold: none, a key pair AWS
\* accepts, a key pair AWS rejects
Credentials == {"", "valid", "invalid"}

\* onChange of a credentials input: credentialsValid is left as it is
SetCredentials ==
  /\ currentMode = "s3"
  /\ ~s3IsProcessing
  /\ \E c \in Credentials \ {credentials} : credentials' = c
  /\ UNCHANGED <<credentialsValid, tpc, tested, lpc, listed, totalFiles, s3pc,
                 s3IsProcessing, processingResults, s3request>>
  /\ UNCHANGED <<currentMode, app, folderVars, histVars, singleVars, downloadVars,
                 zipVars, batchVars, moreVars>>

\* testCredentials with an empty key: a warning toast, no state change
TestCredentialsEmpty ==
  /\ currentMode = "s3"
  /\ tpc = "idle"
  /\ ~s3IsProcessing
  /\ credentials = ""
  /\ UNCHANGED vars

\* testCredentials up to its await
TestCredentialsStart ==
  /\ currentMode = "s3"
  /\ tpc = "idle"
  /\ ~s3IsProcessing
  /\ credentials # ""
  /\ tpc' = "testing"
  /\ tested' = credentials
  /\ UNCHANGED <<credentials, credentialsValid, lpc, listed, totalFiles, s3pc,
                 s3IsProcessing, processingResults, s3request>>
  /\ UNCHANGED <<currentMode, app, folderVars, histVars, singleVars, downloadVars,
                 zipVars, batchVars, moreVars>>

\* s3Service.testCredentials returns: success needs credentials AWS accepts
TestCredentialsReturn ==
  /\ tpc = "testing"
  /\ \E ok \in BOOLEAN :
       /\ ok => tested = "valid"
       /\ credentialsValid' = ok
  /\ tpc' = "idle"
  /\ UNCHANGED <<credentials, tested, lpc, listed, totalFiles, s3pc,
                 s3IsProcessing, processingResults, s3request>>
  /\ UNCHANGED <<currentMode, app, folderVars, histVars, singleVars, downloadVars,
                 zipVars, batchVars, moreVars>>

\* listS3Folder before a credentials test has succeeded, or without a folder
\* path: a warning toast, no state change
ListS3FolderRefused ==
  /\ currentMode = "s3"
  /\ lpc = "idle"
  /\ ~s3IsProcessing
  /\ \E inputS3Folder \in BOOLEAN : ~credentialsValid \/ ~inputS3Folder
  /\ UNCHANGED vars

\* listS3Folder up to its await
ListS3FolderStart ==
  /\ currentMode = "s3"
  /\ lpc = "idle"
  /\ ~s3IsProcessing
  /\ credentialsValid
  /\ lpc' = "listing"
  /\ listed' = credentials
  /\ UNCHANGED <<credentials, credentialsValid, tpc, tested, totalFiles, s3pc,
                 s3IsProcessing, processingResults, s3request>>
  /\ UNCHANGED <<currentMode, app, folderVars, histVars, singleVars, downloadVars,
                 zipVars, batchVars, moreVars>>

\* s3Service.listS3Folder returns
ListS3FolderReturn ==
  /\ lpc = "listing"
  /\ \E ok \in BOOLEAN, n \in 0..MaxFiles :
       /\ ok => listed = "valid"
       /\ totalFiles' = IF ok THEN n ELSE totalFiles
  /\ lpc' = "idle"
  /\ UNCHANGED <<credentials, credentialsValid, tpc, tested, listed, s3pc,
                 s3IsProcessing, processingResults, s3request>>
  /\ UNCHANGED <<currentMode, app, folderVars, histVars, singleVars, downloadVars,
                 zipVars, batchVars, moreVars>>


\* every value s3Service.processSingleImage / processFolder can return for a
\* request sent with credentials c: {success: false, error} (they catch every
\* error of the request), or {success: true, data} when AWS accepts c.  A
\* folder answer carries one result per image, the first count of them
\* successful
S3Answers(kind, c) ==
  {[success |-> FALSE, results |-> <<>>, successful_count |-> 0]}
  \cup (IF c # "valid" THEN {}
        ELSE IF kind = "single"
        THEN {[success |-> TRUE, results |-> <<"ok">>, successful_count |-> 1]}
        ELSE UNION {{[success |-> TRUE,
                      results |-> [k \in 1..n |-> IF k <= count THEN "ok" ELSE "failed"],
                      successful_count |-> count] : count \in 0..n} : n \in 0..MaxFiles})

\* processSingleImage / processFolder before a credentials test has
\* succeeded, or without the S3 paths: a warning toast, no state change
S3ProcessRefused ==
  /\ currentMode = "s3"
  /\ ~s3IsProcessing
  /\ \E paths \in BOOLEAN : ~credentialsValid \/ ~paths
  /\ UNCHANGED vars

\* variant: the processing functions do not look at credentialsValid
S3ProcessStartUnchecked ==
  /\ currentMode = "s3"
  /\ ~s3IsProcessing
  /\ \E kind \in {"single", "folder"} :
       /\ s3pc' = kind
       /\ app' = handleProcessingStart(app, IF kind = "single" THEN 1 ELSE totalFiles)
       /\ s3request' = [kind |-> kind, credentials |-> credentials,
                        credentialsValid |-> credentialsValid, answer |-> "none"]
  /\ s3IsProcessing' = TRUE
  /\ UNCHANGED <<credentials, credentialsValid, tpc, tested, lpc, listed, totalFiles,
                 processingResults>>
  /\ UNCHANGED <<currentMode, folderVars, histVars, singleVars, downloadVars,
                 zipVars, batchVars, moreVars>>

\* processSingleImage (kind = "single") or processFolder (kind = "folder") up
\* to its await
S3ProcessStart ==
  /\ currentMode = "s3"
  /\ ~s3IsProcessing
  /\ credentialsValid
  /\ \E kind \in {"single", "folder"} :
       /\ s3pc' = kind
       /\ app' = handleProcessingStart(app, IF kind = "single" THEN 1 ELSE totalFiles)
       /\ s3request' = [kind |-> kind, credentials |-> credentials,
                        credentialsValid |-> credentialsValid, answer |-> "none"]
  /\ s3IsProcessing' = TRUE
  /\ UNCHANGED <<credentials, credentialsValid, tpc, tested, lpc, listed, totalFiles,
                 processingResults>>
  /\ UNCHANGED <<currentMode, folderVars, histVars, singleVars, downloadVars,
                 zipVars, batchVars, moreVars>>

\* the processing request returns: on success setProcessingResults and
\* onProcessingComplete, otherwise an error status and a toast only; finally
\* setIsProcessing(false) of the component
S3ProcessReturn ==
  /\ s3pc \in {"single", "folder"}
  /\ \E r \in S3Answers(s3pc, s3request.credentials) :
       IF r.success
       THEN /\ processingResults' = r.results
            /\ app' = handleProcessingComplete(app, r.successful_count)
            /\ s3request' = [s3request EXCEPT !.answer = "success"]
       ELSE /\ s3request' = [s3request EXCEPT !.answer = "rejected"]
            /\ UNCHANGED <<processingResults, app>>
  /\ s3IsProcessing' = FALSE
  /\ s3pc' = "done"
  /\ UNCHANGED <<credentials, credentialsValid, tpc, tested, lpc, listed, totalFiles>>
  /\ UNCHANGED <<currentMode, folderVars, histVars, singleVars, downloadVars,
                 zipVars, batchVars, moreVars>>

\* the S3 mode alone
S3Init ==
  /\ currentMode = "s3"
  /\ AppIdle /\ FolderIdle /\ SingleIdle /\ DownloadIdle /\ OtherIdle
  /\ useParallelProcessing = FALSE
  /\ selectedFiles = <<>>
  /\ files = <<>>

S3Next ==
  \/ SetCredentials
  \/ TestCredentialsEmpty
  \/ TestCredentialsStart
  \/ TestCredentialsReturn
  \/ ListS3FolderRefused
  \/ ListS3FolderStart
  \/ ListS3FolderReturn
  \/ S3ProcessRefused
  \/ S3ProcessStart
  \/ S3ProcessReturn

S3Spec == S3Init /\ [][S3Next]_vars


\* ------------------------------------------------- ApiService.processBatch
\* every value detectObjects / blurObjects can return; both catch every
\* error of the request, so the catch of processBatch is never entered
ApiResults ==
  {[success |-> TRUE, data |-> "data", error |-> "none"]}
  \cup {[success |-> FALSE, data |-> "undefined", error |-> e] : e \in Errors}

\* the head of the for loop with loop variable j: the next iteration up to
\* its await of detectObjects, or the return statement
BatchLoop(j, rs) ==
  IF j <= Len(bfiles)
  THEN /\ bi' = j
       /\ bresults' = rs
       /\ bcalls' = Append(bcalls, <<"detect", j>>)
       /\ bpc' = "detect"
       /\ UNCHANGED breturned
  ELSE /\ bi' = j
       /\ bresults' = rs
       /\ breturned' = <<[success |-> TRUE, data |-> rs]>>
       /\ bpc' = "done"
       /\ UNCHANGED bcalls

\* processBatch(files, options) up to its first await
ProcessBatchStart ==
  /\ bpc = "idle"
  /\ bends' = <<>>
  /\ bblurs' = <<>>
  /\ BatchLoop(1, <<>>)
  /\ UNCHANGED <<bfiles, boptions>>
  /\ UNCHANGED <<currentMode, app, folderVars, histVars, singleVars, downloadVars,
                 zipVars, s3Vars, moreVars>>

\* variant: a file whose detection fails gets no entry in results
BatchDetectReturnDropsFailed ==
  /\ bpc = "detect"
  /\ \E r \in ApiResults :
       /\ bends' = Append(bends, <<bi, r>>)
       /\ IF r.success
          THEN IF boptions.enableBlur
               THEN /\ bpc' = "blur"
                    /\ bcalls' = Append(bcalls, <<"blur", bi>>)
                    /\ UNCHANGED <<bi, bresults, breturned>>
               ELSE BatchLoop(bi + 1,
                      Append(bresults, [filename |-> bfiles[bi], detection |-> r.data,
                                        blur |-> "null", success |-> TRUE]))
          ELSE BatchLoop(bi + 1, bresults)
  /\ UNCHANGED <<bfiles, boptions, bblurs>>
  /\ UNCHANGED <<currentMode, app, folderVars, histVars, singleVars, downloadVars,
                 zipVars, s3Vars, moreVars>>

\* detectObjects returns for files[bi]
BatchDetectReturn ==
  /\ bpc = "detect"
  /\ \E r \in ApiResults :
       /\ bends' = Append(bends, <<bi, r>>)
       /\ IF r.success
          THEN IF boptions.enableBlur
               THEN /\ bpc' = "blur"
                    /\ bcalls' = Append(bcalls, <<"blur", bi>>)
                    /\ UNCHANGED <<bi, bresults, breturned>>
               ELSE BatchLoop(bi + 1,
                      Append(bresults, [filename |-> bfiles[bi], detection |-> r.data,
                                        blur |-> "null", success |-> TRUE]))
          ELSE BatchLoop(bi + 1,
                 Append(bresults, [filename |-> bfiles[bi], error |-> r.error,
                                   success |-> FALSE]))
  /\ UNCHANGED <<bfiles, boptions, bblurs>>
  /\ UNCHANGED <<currentMode, app, folderVars, histVars, singleVars, downloadVars,
                 zipVars, s3Vars, moreVars>>

\* blurObjects returns for files[bi]: blurResult?.data || null
BatchBlurReturn ==
  /\ bpc = "blur"
  /\ \E r \in ApiResults :
       /\ bblurs' = Append(bblurs, <<bi, r>>)
       /\ BatchLoop(bi + 1,
            Append(bresults, [filename |-> bfiles[bi], detection |-> "data",
                              blur |-> IF r.success THEN r.data ELSE "null",
                              success |-> TRUE]))
  /\ UNCHANGED <<bfiles, boptions, bends>>
  /\ UNCHANGED <<currentMode, app, folderVars, histVars, singleVars, downloadVars,
                 zipVars, s3Vars, moreVars>>

\* one call of processBatch
BatchInit ==
  /\ currentMode = "folder"
  /\ AppIdle /\ FolderIdle /\ SingleIdle /\ DownloadIdle /\ ZipIdle /\ S3Idle /\ MoreIdle
  /\ useParallelProcessing = FALSE
  /\ selectedFiles = <<>>
  /\ files = <<>>
  /\ bfiles \in SeqsUpTo(Names, MaxFiles)
  /\ boptions \in [enableBlur : BOOLEAN]
  /\ bpc = "idle"
  /\ bi = 0
  /\ bresults = <<>>
  /\ bcalls = <<>>
  /\ bends = <<>>
  /\ bblurs = <<>>
  /\ breturned = <<>>

BatchNext ==
  \/ ProcessBatchStart
  \/ BatchDetectReturn
  \/ BatchBlurReturn

BatchSpec == BatchInit /\ [][BatchNext]_vars


\* ------------------------------------------------------ App.handleDownload
\* handleDownload while a download is in progress: a warning toast, no state
\* change
HandleDownloadBusy ==
  /\ currentMode = "single"
  /\ isDownloading
  /\ UNCHANGED vars

\* variant: handleDownload does not look at isDownloading
HandleDownloadStartUnguarded ==
  /\ currentMode = "single"
  /\ \E type \in {"original", "blurred"}, blurred \in BOOLEAN :
       IF type = "blurred" /\ blurred
       THEN /\ isDownloading' = TRUE
            /\ hdpc' = "delay"
            /\ dlActive' = dlActive + 1
       ELSE /\ isDownloading' = FALSE
            /\ UNCHANGED <<hdpc, dlActive>>
  /\ UNCHANGED <<currentMode, app, folderVars, histVars, singleVars, downloadVars,
                 zipVars, s3Vars, batchVars, viewerVars, statusVars>>

\* handleDownload(image, type) up to its first await, or up to its end: the
\* original file is handed over at once; a blurred image that exists is
\* fetched from the server after a wait of 1000 ms
HandleDownloadStart ==
  /\ currentMode = "single"
  /\ ~isDownloading
  /\ \E type \in {"original", "blurred"}, blurred \in BOOLEAN :
       IF type = "blurred" /\ blurred
       THEN /\ isDownloading' = TRUE
            /\ hdpc' = "delay"
            /\ dlActive' = dlActive + 1
       ELSE /\ isDownloading' = FALSE
            /\ UNCHANGED <<hdpc, dlActive>>
  /\ UNCHANGED <<currentMode, app, folderVars, histVars, singleVars, downloadVars,
                 zipVars, s3Vars, batchVars, viewerVars, statusVars>>

\* the wait is over: downloadWithRetry(filename, 3) up to its first await
HandleDownloadDelayDone ==
  /\ hdpc = "delay"
  /\ hdpc' = "retry"
  /\ maxRetries' = DefaultMaxRetries
  /\ attempt' = 1
  /\ now' = 0
  /\ attempts' = <<>>
  /\ slept' = 0
  /\ returned' = [success |-> FALSE, data |-> "none", error |-> "none"]
  /\ dpc' = "download"
  /\ UNCHANGED <<isDownloading, dlActive>>
  /\ UNCHANGED <<currentMode, app, folderVars, histVars, singleVars,
                 zipVars, s3Vars, batchVars, viewerVars, statusVars>>

\* downloadWithRetry has returned: the blob is handed over, or the error is
\* thrown into the catch; finally setIsDownloading(false)
HandleDownloadEnd ==
  /\ hdpc = "retry"
  /\ dpc = "returned"
  /\ dpc' = "idle"
  /\ hdpc' = "idle"
  /\ isDownloading' = FALSE
  /\ dlActive' = dlActive - 1
  /\ UNCHANGED <<maxRetries, attempt, now, attempts, slept, returned>>
  /\ UNCHANGED <<currentMode, app, folderVars, histVars, singleVars,
                 zipVars, s3Vars, batchVars, viewerVars, statusVars>>

\* handleDownload over downloadWithRetry, in single-image mode
HandleDownloadNext ==
  \/ HandleDownloadBusy
  \/ HandleDownloadStart
  \/ HandleDownloadDelayDone
  \/ DownloadReturn
  \/ BackoffDone
  \/ HandleDownloadEnd

HandleDownloadSpec == DownloadInit /\ [][HandleDownloadNext]_vars


\* ------------------------------------- S3ImageViewer and FullScreenViewer
ViewerKinds == {"S3ImageViewer", "FullScreenViewer"}

RemoveAt(s, at) == [k \in 1..(Len(s) - 1) |-> IF k < at THEN s[k] ELSE s[k + 1]]

\* loadImage(images[k]) up to its await: an image without an S3 URI throws
\* before the request and ends in the catch and the finally at once
LoadImage(k) ==
  \E hasUri \in BOOLEAN :
    /\ presignedUrl' = <<>>
    /\ IF hasUri
       THEN /\ Len(loads) < MaxLoads
            /\ loading' = TRUE
            /\ error' = FALSE
            /\ loads' = Append(loads, k)
       ELSE /\ loading' = FALSE
            /\ error' = TRUE
            /\ UNCHANGED loads

\* the effect on [isOpen, currentIndex, images, loadImage] of S3ImageViewer;
\* FullScreenViewer shows images[currentIndex] without a request
IndexEffect(k) ==
  IF viewerKind = "S3ImageViewer"
  THEN LoadImage(k)
  ELSE UNCHANGED <<loading, error, presignedUrl, loads>>

\* openViewer(index) from the list of results
OpenViewer ==
  /\ ~isViewerOpen
  /\ \E index \in 0..(images - 1) :
       /\ viewerIndex' = index
       /\ IndexEffect(index)
  /\ isViewerOpen' = TRUE
  /\ lastNav' = "none"
  /\ UNCHANGED <<viewerKind, images>>
  /\ UNCHANGED <<currentMode, app, folderVars, histVars, singleVars, downloadVars,
                 zipVars, s3Vars, batchVars, handlerVars, statusVars>>

\* closeViewer, by the close button or the Escape key: the state of the
\* component and its requests in flight stay
CloseViewer ==
  /\ isViewerOpen
  /\ isViewerOpen' = FALSE
  /\ UNCHANGED <<viewerKind, images, viewerIndex, loading, error, presignedUrl,
                 loads, lastNav>>
  /\ UNCHANGED <<currentMode, app, folderVars, histVars, singleVars, downloadVars,
                 zipVars, s3Vars, batchVars, handlerVars, statusVars>>

\* the navigation buttons of S3ImageViewer are disabled while loading, its
\* arrow keys are not
Accepted(via) == via = "key" \/ viewerKind = "FullScreenViewer" \/ ~loading

\* variant: handleNext without the check against images.length
ViewerNextUnguarded ==
  /\ isViewerOpen
  /\ \E via \in {"button", "key"} : Accepted(via)
  /\ viewerIndex' = viewerIndex + 1
  /\ lastNav' = "next"
  /\ IndexEffect(viewerIndex + 1)
  /\ UNCHANGED <<viewerKind, images, isViewerOpen>>
  /\ UNCHANGED <<currentMode, app, folderVars, histVars, singleVars, downloadVars,
                 zipVars, s3Vars, batchVars, handlerVars, statusVars>>

\* handlePrevious, by the button or the ArrowLeft key
ViewerPrevious ==
  /\ isViewerOpen
  /\ \E via \in {"button", "key"} : Accepted(via)
  /\ IF viewerIndex > 0
     THEN /\ viewerIndex' = viewerIndex - 1
          /\ lastNav' = "previous"
          /\ IndexEffect(viewerIndex - 1)
     ELSE /\ lastNav' = "previous at first"
          /\ UNCHANGED <<viewerIndex, loading, error, presignedUrl, loads>>
  /\ UNCHANGED <<viewerKind, images, isViewerOpen>>
  /\ UNCHANGED <<currentMode, app, folderVars, histVars, singleVars, downloadVars,
                 zipVars, s3Vars, batchVars, handlerVars, statusVars>>

\* handleNext, by the button or the ArrowRight key
ViewerNext ==
  /\ isViewerOpen
  /\ \E via \in {"button", "key"} : Accepted(via)
  /\ IF viewerIndex < images - 1
     THEN /\ viewerIndex' = viewerIndex + 1
          /\ lastNav' = "next"
          /\ IndexEffect(viewerIndex + 1)
     ELSE /\ lastNav' = "next at last"
          /\ UNCHANGED <<viewerIndex, loading, error, presignedUrl, loads>>
  /\ UNCHANGED <<viewerKind, images, isViewerOpen>>
  /\ UNCHANGED <<currentMode, app, folderVars, histVars, singleVars, downloadVars,
                 zipVars, s3Vars, batchVars, handlerVars, statusVars>>

\* handleThumbnailClick(index) of FullScreenViewer
ThumbnailClick ==
  /\ isViewerOpen
  /\ viewerKind = "FullScreenViewer"
  /\ \E index \in 0..(images - 1) : viewerIndex' = index
  /\ lastNav' = "thumbnail"
  /\ UNCHANGED <<viewerKind, images, isViewerOpen, loading, error, presignedUrl, loads>>
  /\ UNCHANGED <<currentMode, app, folderVars, histVars, singleVars, downloadVars,
                 zipVars, s3Vars, batchVars, handlerVars, statusVars>>

\* s3Service.viewS3Image returns to the loadImage that sent it: the URL is
\* stored, or the error; finally setLoading(false)
ViewerLoadReturn ==
  /\ \E at \in DOMAIN loads, ok \in BOOLEAN :
       /\ loads' = RemoveAt(loads, at)
       /\ IF ok
          THEN /\ presignedUrl' = <<loads[at]>>
               /\ UNCHANGED error
          ELSE /\ error' = TRUE
               /\ UNCHANGED presignedUrl
  /\ loading' = FALSE
  /\ UNCHANGED <<viewerKind, images, isViewerOpen, viewerIndex, lastNav>>
  /\ UNCHANGED <<currentMode, app, folderVars, histVars, singleVars, downloadVars,
                 zipVars, s3Vars, batchVars, handlerVars, statusVars>>

\* the image element is on the page
ImageShown ==
  /\ viewerKind = "S3ImageViewer"
  /\ isViewerOpen
  /\ presignedUrl # <<>>
  /\ ~loading
  /\ ~error

\* onError of the image element
ImageError ==
  /\ ImageShown
  /\ error' = TRUE
  /\ UNCHANGED <<viewerKind, images, isViewerOpen, viewerIndex, loading,
                 presignedUrl, loads, lastNav>>
  /\ UNCHANGED <<currentMode, app, folderVars, histVars, singleVars, downloadVars,
                 zipVars, s3Vars, batchVars, handlerVars, statusVars>>

ViewerInit ==
  /\ viewerKind \in ViewerKinds
  /\ currentMode = (IF viewerKind = "S3ImageViewer" THEN "s3" ELSE "folder")
  /\ AppIdle /\ FolderIdle /\ SingleIdle /\ DownloadIdle
  /\ ZipIdle /\ S3Idle /\ BatchIdle /\ HandlerIdle /\ StatusIdle
  /\ useParallelProcessing = FALSE
  /\ selectedFiles = <<>>
  /\ files = <<>>
  /\ images \in 1..MaxFiles
  /\ isViewerOpen = FALSE
  /\ viewerIndex = 0
  /\ loading = FALSE
  /\ error = FALSE
  /\ presignedUrl = <<>>
  /\ loads = <<>>
  /\ lastNav = "none"

ViewerStep ==
  \/ OpenViewer
  \/ CloseViewer
  \/ ViewerPrevious
  \/ ViewerNext
  \/ ThumbnailClick
  \/ ViewerLoadReturn
  \/ ImageError

ViewerSpec == ViewerInit /\ [][ViewerStep]_vars


\* ---------------------------------------------------------- App.showStatus
\* the due time of the timer that is due first
NextDue == CHOOSE d \in {t[2] : t \in timers} : \A t \in timers : d <= t[2]

\* showStatus(true, type, title, message): the message replaces the status
\* and a timer of 5000 ms is started; no timer is ever cleared
ShowStatus ==
  /\ shown < MaxMessages
  /\ shown' = shown + 1
  /\ status' = [show |-> TRUE, id |-> shown + 1, shownAt |-> clock,
                hiddenBy |-> "none", hiddenAt |-> 0]
  /\ timers' = timers \cup {<<shown + 1, clock + StatusTimeout>>}
  /\ UNCHANGED clock
  /\ UNCHANGED <<currentMode, app, folderVars, histVars, singleVars, downloadVars,
                 zipVars, s3Vars, batchVars, handlerVars, viewerVars>>

\* time passes while no timer is due
Tick ==
  /\ timers # {}
  /\ \E d \in Elapse :
       /\ clock + d <= NextDue
       /\ clock' = clock + d
  /\ UNCHANGED <<status, timers, shown>>
  /\ UNCHANGED <<currentMode, app, folderVars, histVars, singleVars, downloadVars,
                 zipVars, s3Vars, batchVars, handlerVars, viewerVars>>

\* the timer that is due first fires:
\* setStatus(prev => ({...prev, show: false}))
TimerFires ==
  /\ \E t \in timers :
       /\ t[2] = NextDue
       /\ timers' = timers \ {t}
       /\ clock' = (IF clock < t[2] THEN t[2] ELSE clock)
  /\ status' = IF status.show
               THEN [status EXCEPT !.show = FALSE, !.hiddenBy = "timer",
                                   !.hiddenAt = clock']
               ELSE status
  /\ UNCHANGED shown
  /\ UNCHANGED <<currentMode, app, folderVars, histVars, singleVars, downloadVars,
                 zipVars, s3Vars, batchVars, handlerVars, viewerVars>>

\* onClose of StatusBar: setStatus(prev => ({...prev, show: false}))
CloseStatus ==
  /\ status.show
  /\ status' = [status EXCEPT !.show = FALSE, !.hiddenBy = "user",
                              !.hiddenAt = clock]
  /\ UNCHANGED <<timers, clock, shown>>
  /\ UNCHANGED <<currentMode, app, folderVars, histVars, singleVars, downloadVars,
                 zipVars, s3Vars, batchVars, handlerVars, viewerVars>>

StatusInit ==
  /\ currentMode = "single"
  /\ AppIdle /\ FolderIdle /\ SingleIdle /\ DownloadIdle /\ OtherIdle
  /\ useParallelProcessing = FALSE
  /\ selectedFiles = <<>>
  /\ files = <<>>

StatusNext ==
  \/ ShowStatus
  \/ Tick
  \/ TimerFires
  \/ CloseStatus

StatusSpec == StatusInit /\ [][StatusNext]_vars

\* ------------------------------------------------------------- properties

\* C1: a finished processFolder run over N files has published exactly N
\* records, one for each input index, failed items included.
C1_EveryItemRecorded ==
  pc = "done" =>
    /\ Len(results) = Len(selectedFiles)
    /\ \A k \in 1..Len(selectedFiles) :
         Cardinality({r \in DOMAIN results : results[r].file = k}) = 1

\* C2: in the sequential loops (processFolder sequential and fallback,
\* handleDetect, handleBlur) a failed item never aborts the batch: the item
\* after a finished one is requested at once, at the end every item has been
\* requested and finished exactly once, and every item that succeeded has its
\* record in the results whatever happened to the items before it.
C2_FailureDoesNotAbort ==
  /\ \A e \in DOMAIN ends :
       ends[e][1] < Len(selectedFiles) => <<"detect", ends[e][1] + 1>> \in Range(calls)
  /\ (pc = "done" /\ branch \in {"sequential", "fallback"}) =>
       /\ [e \in DOMAIN ends |-> ends[e][1]] = [k \in 1..Len(selectedFiles) |-> k]
       /\ \A k \in 1..Len(selectedFiles) : <<"detect", k>> \in Range(calls)
       /\ \A e \in DOMAIN ends :
            ends[e][2] = "ok" =>
              \E r \in DOMAIN results :
                results[r] = SequentialResult(selectedFiles, ends[e][1])
  /\ \A e \in DOMAIN hends :
       hends[e][1] < Len(files) => <<"detect", hends[e][1] + 1>> \in Range(hcalls)
  /\ hpc = "done" =>
       /\ [e \in DOMAIN hends |-> hends[e][1]] = [k \in 1..Len(files) |-> k]
       /\ \A e \in DOMAIN hends :
            hends[e][2] = "ok" =>
              \E r \in DOMAIN hresults :
                /\ hresults[r].file = hends[e][1]
                /\ hresults[r] \in Range(processedImages)

\* C2 witness: a sequential run that ended after its first item failed and
\* its second item succeeded
C2_Witness ==
  /\ pc = "done" /\ branch = "sequential"
  /\ Len(ends) >= 2
  /\ ends[1] = <<1, "detect_failed">>
  /\ ends[2] = <<2, "ok">>
  /\ \E r \in DOMAIN results : results[r].file = 2

\* C3: once the parallel submission has failed with no outcome recorded, the
\* job runs the sequential loop over all N items and finishes: results
\* published, completion reported, isProcessing false.
C3_FallbackSettlesAll ==
  (parallelResult.kind \in {"error", "noresults"}) ~>
    (/\ pc = "done" /\ branch = "fallback"
     /\ {ends[e][1] : e \in DOMAIN ends} = 1..Len(selectedFiles)
     /\ results = processedResults
     /\ Len(completions) = 1
     /\ ~isProcessing /\ ~app.isProcessing)

\* C3 witness: a finished fallback run of two or more files after a failed submission
C3_Witness ==
  /\ pc = "done" /\ branch = "fallback"
  /\ parallelResult.kind = "error"
  /\ Len(selectedFiles) >= 2
  /\ Len(ends) = Len(selectedFiles)
  /\ ~isProcessing

\* C4: after a run in which the fallback loop ran, no input file appears more
\* than once in the published results.
C4_NoDuplicateAfterFallback ==
  (pc = "done" /\ branch = "fallback") =>
    \A r1, r2 \in DOMAIN results : r1 # r2 => results[r1].file # results[r2].file

\* C5: downloadWithRetry(filename, 3) whose attempts 1 and 2 fail and whose
\* attempt 3 succeeds makes exactly 3 attempts, at least 2 s after the end of
\* attempt 1 and at least 4 s after the end of attempt 2, and returns the success.
C5_FailFailSucceed ==
  (/\ maxRetries = 3
   /\ Len(attempts) >= 3
   /\ ~attempts[1].result.success
   /\ ~attempts[2].result.success
   /\ attempts[3].result.success) =>
    /\ Len(attempts) = 3
    /\ attempts[2].at - attempts[1].done >= 2000
    /\ attempts[3].at - attempts[2].done >= 4000
    /\ dpc \in {"returned", "idle"}
    /\ returned = attempts[3].result
    /\ returned.success

\* C5 witness: such a call has returned
C5_Witness ==
  /\ dpc = "returned" /\ maxRetries = 3 /\ Len(attempts) = 3
  /\ ~attempts[1].result.success /\ ~attempts[2].result.success
  /\ returned.success

\* C6: downloadWithRetry calls downloadImage at most maxRetries times and
\* stops at the first success: the successful attempt is the last one, its
\* result is what is returned, and nothing is awaited after it.
C6_AtMostMaxRetriesStopAtSuccess ==
  /\ Len(attempts) <= maxRetries
  /\ \A k \in DOMAIN attempts :
       attempts[k].result.success =>
         /\ k = Len(attempts)
         /\ dpc \in {"returned", "idle"}
         /\ returned = attempts[k].result
         /\ now = attempts[k].done

\* C6 witness: a call that returned a success before its attempts ran out
C6_Witness ==
  /\ dpc = "returned" /\ returned.success
  /\ Len(attempts) = 2 /\ maxRetries > 2

\* C7: when all maxRetries attempts fail, the value returned is the failure
\* of the last attempt, unchanged.
C7_LastFailureReturned ==
  (/\ dpc \in {"returned", "idle"}
   /\ Len(attempts) > 0
   /\ \A k \in DOMAIN attempts : ~attempts[k].result.success) =>
    /\ Len(attempts) = maxRetries
    /\ returned = attempts[maxRetries].result

\* C7 witness: an exhausted call whose last failure differs from its first
C7_Witness ==
  /\ dpc = "returned" /\ ~returned.success
  /\ Len(attempts) = maxRetries /\ maxRetries >= 2
  /\ attempts[1].result # attempts[maxRetries].result

\* C8 as stated: no delay before attempt 1, and 2^k seconds before attempt k >= 2.
C8_DelayBeforeAttemptK ==
  \A k \in DOMAIN attempts :
    attempts[k].slept = IF k = 1 THEN 0 ELSE Pow2(k) * 1000

\* C8 amended: no delay before attempt 1, and 2^(k-1) seconds before attempt
\* k >= 2 (2 s before attempt 2, 4 s before attempt 3, 8 s before attempt 4).
C8_DelayBeforeAttemptK_Amended ==
  \A k \in DOMAIN attempts :
    /\ attempts[k].slept = IF k = 1 THEN 0 ELSE Pow2(k - 1) * 1000
    /\ k > 1 => attempts[k].at = attempts[k - 1].done + attempts[k].slept

\* C8 witness: a third attempt was made
C8_Witness ==
  /\ Len(attempts) >= 3
  /\ attempts[3].slept = 4000

\* C9: every progress report is made after one more item has settled, so its
\* processedCount is the number of items settled so far, and a finished run
\* has made one report per item, in the parallel strategy too.
C9_ProgressAfterEachSettle ==
  /\ \A r \in DOMAIN reports : reports[r][1] = reports[r][3]
  /\ pc = "done" => Len(reports) = Len(selectedFiles)

\* C10: the status reported when a folder job finishes is the success status
\* only if every item succeeded.
C10_TerminalStatusDistinguishes ==
  (pc = "done" /\ app.processingStatus = "success") =>
    /\ Len(results) = Len(selectedFiles)
    /\ \A r \in DOMAIN results :
         results[r].detection = "data" /\ results[r].blurred = "data"

\* C11: the results processFolder publishes are in input-index order: of any
\* two published results the one of the smaller input index comes first,
\* whatever order the parallel endpoint answered in.
C11_ResultsInIndexOrder ==
  pc = "done" =>
    \A a, b \in DOMAIN results : a < b => results[a].file <= results[b].file

\* the detect and blur requests a sequential loop has sent, in order
ItemCalls == SelectSeq(calls, LAMBDA c : c[1] \in {"detect", "blur"})
\* the indices whose request was sent / whose item the loop has finished
Requested == {c[2] : c \in Range(ItemCalls)}
Ended == {e[1] : e \in Range(ends)}

\* C12: a sequential loop visits the items in index order with at most one
\* item's detect/blur request in flight: the request of item k+1 is sent only
\* after item k has settled.
C12_OneInFlightInIndexOrder ==
  /\ Requested = 1..Cardinality(Requested)
  /\ \A a, b \in DOMAIN ItemCalls : a < b => ItemCalls[a][2] <= ItemCalls[b][2]
  /\ Cardinality(Requested \ Ended) <= 1
  /\ \A k \in Requested : \A j \in 1..(k - 1) : j \in Ended
  /\ (Requested \ Ended # {}) <=> pc \in {"detect", "blur"}

\* a sequential loop has sent the request of the second item
C12_Witness ==
  /\ branch = "sequential"
  /\ pc = "detect"
  /\ i = 2
  /\ <<"detect", 2>> \in Range(calls)
  /\ 1 \in Ended

\* C19: within one run of a sequential loop, and within one run of
\* handleDetect / handleBlur, the detect call and the blur call of an item are
\* each sent at most once, and nothing is sent for an item that has failed.
C19_NoRetryOfDetectOrBlur ==
  /\ \A a, b \in DOMAIN calls : calls[a] = calls[b] => a = b
  /\ \A a, b \in DOMAIN hcalls : hcalls[a] = hcalls[b] => a = b
  /\ \A e \in Range(ends) :
       e[2] = "detect_failed" => <<"blur", e[1]>> \notin Range(calls)
  /\ \A e \in Range(hends) :
       e[2] = "detect_failed" => <<"blur", e[1]>> \notin Range(hcalls)

\* a sequential run has ended after the detect call of its first item and the
\* blur call of its second item failed
C19_Witness ==
  /\ pc = "done"
  /\ branch = "sequential"
  /\ <<1, "detect_failed">> \in Range(ends)
  /\ <<2, "blur_failed">> \in Range(ends)

\* what a published result list shows for input index k
PublishedOutcome(res, k) ==
  {<<r.detection, r.blurred>> : r \in {x \in Range(res) : x.file = k}}

\* the per-item outcomes the run of a sequential loop has met
EndOutcomes ==
  [k \in 1..Len(selectedFiles) |->
     IF <<k, "ok">> \in Range(ends) THEN "ok"
     ELSE IF <<k, "blur_failed">> \in Range(ends) THEN "blur_failed"
     ELSE "detect_failed"]

\* C17: for the same selected files and the same per-item outcomes of the
\* detect/blur capability, processFolder publishes the same per-item outcomes
\* with the parallel strategy as with the sequential strategy.
C17_StrategiesPublishSameOutcomes ==
  LET n == Len(selectedFiles) IN
  /\ (pc = "done" /\ branch = "sequential") =>
       results = SequentialPublishes(selectedFiles, EndOutcomes)
  /\ (pc = "done" /\ branch = "parallel") =>
       \E o \in [1..n -> Outcomes], p \in Perms(n) :
         /\ parallelResult.results = [k \in 1..n |-> ServerResult(selectedFiles[p[k]], o[p[k]])]
         /\ \A k \in 1..n :
              PublishedOutcome(results, k)
                = PublishedOutcome(SequentialPublishes(selectedFiles, o), k)

\* C20: a running batch job can be cancelled: while items are still to be
\* processed the program has a step that ends the job in the cancelled state
\* without sending the request of a further item.
C20_RunningJobCanBeCancelled ==
  (pc \in {"parallel", "detect", "blur"} /\ i < Len(selectedFiles)) =>
    ENABLED (/\ Next
             /\ calls' = calls
             /\ pc' = "done"
             /\ app'.processingStatus = "cancelled")

\* C13: the archive downloadZip delivers for a job of N files lists all N
\* items in its manifest, the failed ones included, and holds original image
\* bytes only of files that have a published result.
C13_ManifestListsAllItems ==
  delivered # <<>> =>
    /\ Len(delivered[1].manifest) = Len(selectedFiles)
    /\ \A k \in DOMAIN selectedFiles :
         \E m \in DOMAIN delivered[1].manifest :
           delivered[1].manifest[m].filename = selectedFiles[k]
    /\ delivered[1].originals
         \subseteq {selectedFiles[results[m].originalFile] : m \in DOMAIN results}

\* C14: downloadZip fails only when the archive itself cannot be generated:
\* for a non-empty result list published by processFolder a byte source that
\* cannot be read is a gap, and the archive is still delivered.
C14_ZipFailsOnlyOnGenerate ==
  zpc = "failed" => zipError = "generate"

\* C15: every S3 processing job reaches a terminal state whether its request
\* succeeds or fails: once processSingleImage / processFolder has returned,
\* the isProcessing flag of App raised by handleProcessingStart is false.
C15_S3JobEndsNotProcessing ==
  (currentMode = "s3" /\ s3pc = "done") => ~app.isProcessing

\* C16: processFolder and processSingleImage of S3Processor send no
\* processing request while credentialsValid is false, and a request that is
\* rejected leaves processingResults as it was and reports no completed item
\* to App.
C16_InvalidCredentialsNoRecords ==
  /\ [](s3request.kind # "none" => s3request.credentialsValid)
  /\ [][(s3pc \in {"single", "folder"} /\ s3pc' = "done"
            /\ s3request'.answer = "rejected")
         => (/\ processingResults' = processingResults
             /\ app'.processedCount = app.processedCount
             /\ app'.processingStatus = app.processingStatus)]_vars

\* a request sent with credentials that were replaced by a rejected key pair
\* after the test has been rejected, after an earlier job had published
\* results
C16_Witness ==
  /\ s3pc = "done"
  /\ s3request.answer = "rejected"
  /\ s3request.credentials = "invalid"
  /\ processingResults # <<>>

\* C18: processBatch returns without throwing, with exactly one result per
\* input file in input order: data has the length of files, data[k] carries
\* the name of files[k], a file whose detection failed is recorded with
\* success = false and its error, and the files after it are still processed.
C18_BatchOneResultPerFile ==
  bpc = "done" =>
    /\ Len(breturned) = 1
    /\ breturned[1].success
    /\ Len(breturned[1].data) = Len(bfiles)
    /\ \A k \in DOMAIN bfiles : breturned[1].data[k].filename = bfiles[k]
    /\ \A k \in DOMAIN bfiles : <<"detect", k>> \in Range(bcalls)
    /\ \A e \in Range(bends) :
         IF e[2].success
         THEN breturned[1].data[e[1]].success
         ELSE /\ ~breturned[1].data[e[1]].success
              /\ breturned[1].data[e[1]].error = e[2].error

\* processBatch has returned for two files, the detection of the first failed
\* and the second was processed
C18_Witness ==
  /\ bpc = "done"
  /\ Len(bfiles) = 2
  /\ \E e \in Range(bends) : e[1] = 1 /\ ~e[2].success
  /\ \E e \in Range(bends) : e[1] = 2 /\ e[2].success

\* the processed counts App has been given since the job started: 0 by
\* onProcessingStart, then the current of every onProgressUpdate, then the
\* completed of onProcessingComplete
Exposed ==
  <<0>> \o [k \in 1..Len(reports) |-> reports[k][1]] \o completions

\* C23: from the start of a folder job until its completion has been
\* reported, the processed count given to App never decreases and never
\* exceeds the total count.
C23_ProcessedCountMonotoneBounded ==
  (currentMode = "folder" /\ pc # "idle") =>
    /\ \A a, b \in DOMAIN Exposed : a < b => Exposed[a] <= Exposed[b]
    /\ \A a \in DOMAIN Exposed : Exposed[a] <= Len(selectedFiles)
    /\ app.processedCount = Exposed[Len(Exposed)]
    /\ app.totalCount = Len(selectedFiles)

\* C24: an invocation of processFolder on a non-empty selection follows the
\* protocol start, progress*, complete: while it runs App is in the state
\* onProcessingStart left and no completion has been reported; when it has
\* ended exactly one completion has been reported, after the last progress
\* update, and isProcessing of the component is false.
C24_StartProgressComplete ==
  /\ (currentMode = "folder" /\ pc \in {"parallel", "detect", "blur"}) =>
       /\ app.processingStatus = "processing"
       /\ app.isProcessing
       /\ app.totalCount = Len(selectedFiles)
       /\ completions = <<>>
       /\ isProcessing
  /\ (currentMode = "folder" /\ pc = "done") =>
       /\ Len(completions) = 1
       /\ app.processingStatus = "success"
       /\ ~app.isProcessing
       /\ app.processedCount = completions[1]
       /\ ~isProcessing

\* an invocation has ended after progress updates of a sequential loop
C24_Witness ==
  /\ pc = "done"
  /\ Len(selectedFiles) = 2
  /\ Len(reports) >= 2
  /\ Len(completions) = 1

\* C27: in the parallel branch every converted result carries the file of the
\* input item it was computed for, also when two selected files have the same
\* name: the published results match the files under some one-to-one
\* assignment of response entries to input items.
C27_ResultAttachedToOwnFile ==
  (pc = "done" /\ branch = "parallel") =>
    \E p \in Perms(Len(selectedFiles)) :
      \A k \in DOMAIN results :
        /\ parallelResult.results[k].filename = selectedFiles[p[k]]
        /\ results[k].file = p[k]
        /\ results[k].preview = p[k]

\* C21: processBatch records an item with success = true only if every
\* requested step succeeded: an item whose blurObjects call failed is
\* recorded as failed, with the error of the blur call.
C21_BlurFailureRecordedFailed ==
  bpc = "done" =>
    \A e \in Range(bblurs) :
      ~e[2].success =>
        /\ ~breturned[1].data[e[1]].success
        /\ breturned[1].data[e[1]].error = e[2].error

\* C22: at most one download is in progress at any time: isDownloading is
\* true exactly while the download handleDownload started has not ended, a
\* handleDownload invoked meanwhile starts none, and isDownloading is false
\* again when the download has ended, whatever its result.
C22_OneDownloadAtATime ==
  /\ dlActive <= 1
  /\ isDownloading <=> dlActive = 1
  /\ isDownloading <=> hdpc \in {"delay", "retry"}
  /\ hdpc = "retry" <=> dpc # "idle"

\* a download has ended after its three attempts failed
C22_Witness ==
  /\ hdpc = "idle"
  /\ ~isDownloading
  /\ Len(attempts) = DefaultMaxRetries
  /\ ~returned.success

\* C26: every S3 list or processing request is sent with credentials that
\* passed a credentials test: the only credentials a test succeeds with are
\* the valid ones, so every request sent carries the valid credentials.
C26_RequestsCarryTestedCredentials ==
  /\ s3request.kind # "none" => s3request.credentials = "valid"
  /\ lpc = "listing" => listed = "valid"

\* C25: whenever S3ImageViewer has finished loading and shows an image, the
\* presigned URL it shows was issued for images[currentIndex].
C25_ShownUrlIsOfCurrentIndex ==
  ImageShown => presignedUrl[1] = viewerIndex

\* C28: while a viewer is open its index is in range,
\* 0 <= currentIndex <= images.length - 1, whatever previous and next actions
\* were taken.
C28_ViewerIndexInRange ==
  isViewerOpen => (0 <= viewerIndex /\ viewerIndex <= images - 1)

\* next was a no-op at the last of several images
C28_Witness ==
  /\ isViewerOpen
  /\ images >= 2
  /\ lastNav = "next at last"
  /\ viewerIndex = images - 1

====
